---- MODULE Spec2Model ----
(***************************************************************************)
(* Model of src/main.py: the two proxy handlers gerar_historia and         *)
(* gerar_audio, the liveness probe health_check, and the module-level      *)
(* credentials they read.                                                  *)
(*                                                                         *)
(* Python values are tagged records ([t |-> "str", s |-> ...]); a Python   *)
(* string is a sequence of one-character strings, an error message is a    *)
(* sequence of message fragments, and f-string interpolation is \o.        *)
(* A raised exception is a value [t |-> "exc", cls, status, detail]; an    *)
(* expression that can raise yields either its value or the exception.     *)
(***************************************************************************)
EXTENDS Integers, Sequences, FiniteSets, TLC

VARIABLES GROQ_API_KEY, GEMINI_API_KEY, reqs

vars == <<GROQ_API_KEY, GEMINI_API_KEY, reqs>>

\* Longest string drawn for a theme, a text to speak, a story or a payload.
MaxLen == 2
\* Requests in flight together in SpecConc.
NumConcurrent == 2

(***************************************************************************)
(* Python values                                                           *)
(***************************************************************************)
PyNone == [t |-> "None"]
PyStr(s) == [t |-> "str", s |-> s]
PyList(items) == [t |-> "list", items |-> items]
PyDict(f) == [t |-> "dict", f |-> f]
\* A key that a JSON object does not hold (never a value a program sees).
Absent == [t |-> "absent"]
EmptyDict == PyDict([k \in {} |-> PyNone])
\* {key: v}, or {} when v is Absent.
Dict1(key, v) == IF v = Absent THEN EmptyDict ELSE PyDict([k \in {key} |-> v])
\* {k1: v1, k2: v2} without the keys whose value is Absent.
Dict2(k1, v1, k2, v2) ==
    LET val(k) == IF k = k1 THEN v1 ELSE v2
    IN  PyDict([k \in {k \in {k1, k2} : val(k) # Absent} |-> val(k)])

\* bool(v): None, "", [] and {} are falsy.
Truthy(v) ==
    CASE v.t = "None" -> FALSE
      [] v.t = "str"  -> Len(v.s) > 0
      [] v.t = "list" -> Len(v.items) > 0
      [] v.t = "dict" -> DOMAIN v.f # {}
      [] OTHER        -> TRUE

Alphabet == {" ", "a"}
Strs == UNION {[1..k -> Alphabet] : k \in 0..MaxLen}

(***************************************************************************)
(* Exceptions                                                              *)
(***************************************************************************)
\* The direct base class of each exception class the handlers can meet.
Parent(cls) ==
    CASE cls = "Exception"          -> "BaseException"
      [] cls = "HTTPException"      -> "Exception"
      [] cls = "ValueError"         -> "Exception"
      [] cls = "JSONDecodeError"    -> "ValueError"
      [] cls = "ValidationError"    -> "ValueError"
      [] cls = "LookupError"        -> "Exception"
      [] cls = "IndexError"         -> "LookupError"
      [] cls = "KeyError"           -> "LookupError"
      [] cls = "TypeError"          -> "Exception"
      [] cls = "AttributeError"     -> "Exception"
      [] cls = "HTTPError"          -> "Exception"
      [] cls = "HTTPStatusError"    -> "HTTPError"
      [] cls = "RequestError"       -> "HTTPError"
      [] cls = "TransportError"     -> "RequestError"
      [] cls = "TimeoutException"   -> "TransportError"
      [] cls = "ConnectTimeout"     -> "TimeoutException"
      [] cls = "ReadTimeout"        -> "TimeoutException"
      [] cls = "NetworkError"       -> "TransportError"
      [] cls = "ConnectError"       -> "NetworkError"
      [] cls = "APIError"           -> "Exception"
      [] cls = "APIConnectionError" -> "APIError"
      [] cls = "RateLimitError"     -> "APIError"
      [] OTHER                      -> "BaseException"

RECURSIVE IsInstance(_, _)
\* isinstance(e, base), by the class of e.
IsInstance(cls, base) ==
    IF cls = base THEN TRUE
    ELSE IF cls = "BaseException" THEN FALSE
    ELSE IsInstance(Parent(cls), base)

\* An exception of class cls whose str() is msg.
Exc(cls, msg) == [t |-> "exc", cls |-> cls, status |-> 0, detail |-> msg]
\* HTTPException(status_code=status, detail=detail).
HTTPException(status, detail) ==
    [t |-> "exc", cls |-> "HTTPException", status |-> status, detail |-> detail]
IsExc(v) == v.t = "exc"
\* str(e): an HTTPException prints as "<status_code>: <detail>".
StrOf(e) ==
    IF e.cls = "HTTPException"
    THEN <<ToString(e.status), ": ">> \o e.detail
    ELSE e.detail

(***************************************************************************)
(* The HTTP layer around a handler                                         *)
(***************************************************************************)
\* What the caller receives for a handler's outcome: the returned model as
\* 200, an HTTPException as its status and detail, and any other exception
\* as the server's bare 500.
HttpLayer(outcome) ==
    IF ~IsExc(outcome) THEN [status |-> 200, kind |-> "ok", body |-> outcome]
    ELSE IF outcome.cls = "HTTPException"
    THEN [status |-> outcome.status, kind |-> "error", body |-> outcome.detail]
    ELSE [status |-> 500, kind |-> "unhandled", body |-> <<"Internal Server Error">>]

\* The framework's answer to a body that does not validate.
Unprocessable == [status |-> 422, kind |-> "validation", body |-> <<"field required">>]

\* The value a request body gives for its one field: a str is accepted,
\* a missing field or a null is not.
FieldValid(v) == v.t = "str"
\* class QueryInput
QueryInput(v) == FieldValid(v)
\* class AudioInput
AudioInput(v) == FieldValid(v)

(***************************************************************************)
(* Credentials                                                             *)
(***************************************************************************)
\* os.getenv: None when unset, else the string (possibly empty).
KeyValues == {PyNone, PyStr(<<>>), PyStr(<<"k">>)}
\* Mutant of KeyMissing: `if KEY is None`, which lets an empty key through.
KeyIsNone(key) == key = PyNone
\* `if not KEY`
KeyMissing(key) == ~Truthy(key)
\* The credentials as a handler sees them.
Env == [groq |-> GROQ_API_KEY, gemini |-> GEMINI_API_KEY]
\* Mutant of HistoriaKey: the story handler also wants the speech credential.
HistoriaKeyNeedsBoth(env) == IF Truthy(env.gemini) THEN env.groq ELSE PyNone
\* The credential gerar_historia reads.
HistoriaKey(env) == env.groq
\* The credential gerar_audio reads.
AudioKey(env) == env.gemini

(***************************************************************************)
(* gerar_historia                                                          *)
(***************************************************************************)
HistoriaConfigError == HTTPException(500, <<"GROQ_API_KEY não configurada.">>)

RECURSIVE LStrip(_)
\* s without its leading spaces.
LStrip(s) == IF Len(s) > 0 /\ Head(s) = " " THEN LStrip(Tail(s)) ELSE s
\* Mutant of StoryOutput: the text is stripped before it is returned.
StoryOutputStripped(text) ==
    IF text.t = "str" THEN [t |-> "StoryOutput", story_text |-> LStrip(text.s)]
    ELSE Exc("ValidationError", <<"story_text: str type expected">>)
\* StoryOutput(story_text=text)
StoryOutput(text) ==
    IF text.t = "str" THEN [t |-> "StoryOutput", story_text |-> text.s]
    ELSE Exc("ValidationError", <<"story_text: str type expected">>)

\* The try block: what chain.ainvoke gave (a text or an exception) becomes
\* the returned model or the exception.
HistoriaTry(res) == IF IsExc(res) THEN res ELSE StoryOutput(res)

\* `except Exception as e`: anything else propagates.
HistoriaExcept(outcome) ==
    IF IsExc(outcome) /\ IsInstance(outcome.cls, "Exception")
    THEN HTTPException(500, <<"Erro ao gerar história: ">> \o StrOf(outcome))
    ELSE outcome

\* What chain.ainvoke can give back.
ChainErrors ==
    { Exc("APIConnectionError", <<"Connection error.">>),
      Exc("RateLimitError", <<"Error code: 429">>) }
ChainResults == {PyStr(s) : s \in Strs} \cup ChainErrors

(***************************************************************************)
(* gerar_audio                                                             *)
(***************************************************************************)
AudioConfigError == HTTPException(500, <<"Chave da API de Áudio não configurada.">>)
AudioRejected == HTTPException(403, <<"A chave da API de Áudio é inválida.">>)
AudioMalformed == HTTPException(500, <<"API de TTS não retornou dados de áudio.">>)

\* An upstream HTTP response: its status and its body, parsed as JSON.
HttpResponse(status, body) == [t |-> "response", status |-> status, body |-> body]
\* A body that is not JSON.
Unparsable == [t |-> "unparsable"]

\* response.raise_for_status(): an exception unless the status is 2xx.
RaiseForStatus(resp) ==
    IF resp.status \in 200..299 THEN resp
    ELSE Exc("HTTPStatusError", <<"Client or server error ", ToString(resp.status)>>)

\* response.json()
ResponseJson(resp) ==
    IF resp.body = Unparsable
    THEN Exc("JSONDecodeError", <<"Expecting value: line 1 column 1 (char 0)">>)
    ELSE resp.body

\* obj.get(key, default); an exception raised while computing obj goes on.
Get(obj, key, default) ==
    IF IsExc(obj) THEN obj
    ELSE IF obj.t # "dict"
    THEN Exc("AttributeError", <<"'", obj.t, "' object has no attribute 'get'">>)
    ELSE IF key \in DOMAIN obj.f THEN obj.f[key]
    ELSE default

\* obj[0]; an exception raised while computing obj goes on.
Index0(obj) ==
    IF IsExc(obj) THEN obj
    ELSE CASE obj.t = "list" ->
                IF Len(obj.items) = 0
                THEN Exc("IndexError", <<"list index out of range">>)
                ELSE obj.items[1]
           [] obj.t = "str" ->
                IF Len(obj.s) = 0
                THEN Exc("IndexError", <<"string index out of range">>)
                ELSE PyStr(<<obj.s[1]>>)
           [] obj.t = "dict" -> Exc("KeyError", <<"0">>)
           [] OTHER ->
                Exc("TypeError", <<"'", obj.t, "' object is not subscriptable">>)

\* result.get('candidates', [{}])[0].get('content', {}).get('parts', [{}])[0]
FirstPart(result) ==
    Index0(Get(Get(Index0(Get(result, "candidates", PyList(<<EmptyDict>>))),
                   "content", EmptyDict),
               "parts", PyList(<<EmptyDict>>)))

\* part.get('inlineData', {}).get(field): None when the key is missing.
InlineField(part, field) == Get(Get(part, "inlineData", EmptyDict), field, PyNone)

\* AudioOutput(audio_base64=audio_data, mime_type=mime_type)
AudioOutput(audio_data, mime_type) ==
    IF audio_data.t = "str" /\ mime_type.t = "str"
    THEN [t |-> "AudioOutput", audio_base64 |-> audio_data.s, mime_type |-> mime_type.s]
    ELSE Exc("ValidationError", <<"str type expected">>)

\* From response.json() to the returned model.
AudioBody(resp) ==
    LET result     == ResponseJson(resp)
        part       == FirstPart(result)
        audio_data == InlineField(part, "data")
        mime_type  == InlineField(part, "mimeType")
    IN  IF IsExc(part) THEN part
        ELSE IF IsExc(audio_data) THEN audio_data
        ELSE IF IsExc(mime_type) THEN mime_type
        ELSE IF ~Truthy(audio_data) \/ ~Truthy(mime_type) THEN AudioMalformed
        ELSE AudioOutput(audio_data, mime_type)

\* The try block, given what client.post gave: an exception or a response.
AudioTry(up) ==
    IF IsExc(up) THEN up
    ELSE IF up.status = 403 THEN AudioRejected
    ELSE IF IsExc(RaiseForStatus(up)) THEN RaiseForStatus(up)
    ELSE AudioBody(up)

\* Mutant of IsRequestError: `except httpx.NetworkError`, which misses the
\* timeouts.
IsNetworkError(e) == IsInstance(e.cls, "NetworkError")
\* `except httpx.RequestError as e`
IsRequestError(e) == IsInstance(e.cls, "RequestError")

\* Mutant of AudioExcept: the second clause catches httpx.HTTPError only.
AudioExceptHTTPErrorOnly(outcome) ==
    IF ~IsExc(outcome) THEN outcome
    ELSE IF IsInstance(outcome.cls, "RequestError")
    THEN HTTPException(502,
             <<"Erro de comunicação com a API de Áudio: ">> \o StrOf(outcome))
    ELSE IF IsInstance(outcome.cls, "HTTPError")
    THEN HTTPException(500, <<"Erro ao gerar áudio: ">> \o StrOf(outcome))
    ELSE outcome
\* The two except clauses, in their order; anything else propagates.
AudioExcept(outcome) ==
    IF ~IsExc(outcome) THEN outcome
    ELSE IF IsRequestError(outcome)
    THEN HTTPException(502,
             <<"Erro de comunicação com a API de Áudio: ">> \o StrOf(outcome))
    ELSE IF IsInstance(outcome.cls, "Exception")
    THEN HTTPException(500, <<"Erro ao gerar áudio: ">> \o StrOf(outcome))
    ELSE outcome

\* What client.post can raise: connection refused or DNS failure, and the
\* timeout expiring while connecting or reading (their str() is empty).
TransportErrors ==
    { Exc("ConnectError", <<"All connection attempts failed">>),
      Exc("ConnectTimeout", <<>>),
      Exc("ReadTimeout", <<>>) }

\* Upstream bodies, shape by shape along the extraction path.
FieldVals ==
    {Absent, PyNone, PyList(<<PyStr(<<"a">>)>>)} \cup {PyStr(s) : s \in Strs}
InlineVals ==
    {Absent, PyNone} \cup
    {Dict2("data", d, "mimeType", m) : d \in FieldVals, m \in FieldVals}
PartItems == {PyNone} \cup {Dict1("inlineData", v) : v \in InlineVals}
PartsVals ==
    {Absent, PyNone, PyList(<<>>)} \cup {PyList(<<p>>) : p \in PartItems}
ContentVals == {Absent, PyNone} \cup {Dict1("parts", v) : v \in PartsVals}
CandidateItems ==
    {PyNone, PyStr(<<"a">>)} \cup {Dict1("content", v) : v \in ContentVals}
CandidatesVals ==
    {Absent, PyNone, PyList(<<>>), EmptyDict} \cup
    {PyList(<<c>>) : c \in CandidateItems}
Bodies ==
    {Unparsable, PyNone, PyList(<<>>), PyStr(<<"a">>)} \cup
    {Dict1("candidates", v) : v \in CandidatesVals}

ErrorStatuses == {403, 429, 500}
Replies ==
    TransportErrors \cup
    {HttpResponse(s, Unparsable) : s \in ErrorStatuses} \cup
    {HttpResponse(200, b) : b \in Bodies}

(***************************************************************************)
(* health_check                                                            *)
(***************************************************************************)
HealthBody == Dict1("status", PyStr(<<"Contador de Histórias AI está no ar!">>))

(***************************************************************************)
(* Requests                                                                *)
(*                                                                         *)
(* reqs[i] is the i-th request: its endpoint, where its handler stands     *)
(* (idle: not yet received; entered: the handler was called; awaiting:     *)
(* suspended at the outbound call; resumed: the call's result is in the    *)
(* handler's local variable; done: answered), its validated input, the     *)
(* clients it built and the outbound calls it made, the handler's local    *)
(* `response` / `story_text` (up) and what the caller received (out).      *)
(***************************************************************************)
Idle ==
    [ep |-> "none", pc |-> "idle", input |-> Absent, clients |-> 0, calls |-> 0,
     up |-> Absent, out |-> Absent]

Endpoints == {"gerar_historia", "gerar_audio"}

\* The request model of an endpoint accepts the body's field.
Validates(ep, v) == IF ep = "gerar_historia" THEN QueryInput(v) ELSE AudioInput(v)

\* The credential check that opens the handler of ep.
CredentialMissing(ep, env) ==
    IF ep = "gerar_historia" THEN KeyMissing(HistoriaKey(env))
    ELSE KeyMissing(AudioKey(env))

ConfigError(ep) ==
    IF ep = "gerar_historia" THEN HistoriaConfigError ELSE AudioConfigError

\* Mutant of AfterAttempt: a transport failure sends the handler back to its
\* first line.
RetryOnTransportFailure(outcome) ==
    IF IsExc(outcome) /\ outcome.status = 502 THEN "entered" ELSE "done"
\* Where a handler stands once its except clauses have run: they raise, the
\* handler ends.
AfterAttempt(outcome) == "done"

\* Mutant of LocalResponse: `response` is one module-level variable, read
\* as the resumed request of highest number left it.
SharedResponse(rs, i) ==
    LET resumed == {j \in DOMAIN rs : rs[j].pc = "resumed"}
    IN  rs[CHOOSE j \in resumed : \A k \in resumed : k <= j].up
\* The `response` the rest of gerar_audio reads: its own local variable.
LocalResponse(rs, i) == rs[i].up

\* The framework validates the body and calls the handler, or answers 422.
Arrive(i, ep, v) ==
    /\ reqs[i].pc = "idle"
    /\ reqs' = [reqs EXCEPT ![i] =
                  IF Validates(ep, v)
                  THEN [@ EXCEPT !.ep = ep, !.pc = "entered", !.input = v]
                  ELSE [@ EXCEPT !.ep = ep, !.pc = "done", !.input = v,
                                 !.out = Unprocessable]]
    /\ UNCHANGED <<GROQ_API_KEY, GEMINI_API_KEY>>

\* GET /
HealthCheck(i) ==
    /\ reqs[i].pc = "idle"
    /\ reqs' = [reqs EXCEPT ![i] =
                  [@ EXCEPT !.ep = "health", !.pc = "done",
                            !.out = HttpLayer(HealthBody)]]
    /\ UNCHANGED <<GROQ_API_KEY, GEMINI_API_KEY>>

\* A handler from its first line to its outbound call: the credential check
\* raises, or the client is built and the call is sent.
Begin(i) ==
    /\ reqs[i].pc = "entered"
    /\ LET ep == reqs[i].ep
       IN  reqs' = [reqs EXCEPT ![i] =
                      IF CredentialMissing(ep, Env)
                      THEN [@ EXCEPT !.pc = "done",
                                     !.out = HttpLayer(ConfigError(ep))]
                      ELSE [@ EXCEPT !.pc = "awaiting", !.clients = @ + 1,
                                     !.calls = @ + 1]]
    /\ UNCHANGED <<GROQ_API_KEY, GEMINI_API_KEY>>

\* gerar_historia resumes with what chain.ainvoke gave and answers.
HistoriaResume(i, res) ==
    /\ reqs[i].ep = "gerar_historia"
    /\ reqs[i].pc = "awaiting"
    /\ LET outcome == HistoriaExcept(HistoriaTry(res))
       IN  reqs' = [reqs EXCEPT ![i] =
                      [@ EXCEPT !.up = res, !.pc = AfterAttempt(outcome),
                                !.out = HttpLayer(outcome)]]
    /\ UNCHANGED <<GROQ_API_KEY, GEMINI_API_KEY>>

\* gerar_audio resumes: client.post returns a response or raises.
AudioReply(i, up) ==
    /\ reqs[i].ep = "gerar_audio"
    /\ reqs[i].pc = "awaiting"
    /\ reqs' = [reqs EXCEPT ![i] = [@ EXCEPT !.up = up, !.pc = "resumed"]]
    /\ UNCHANGED <<GROQ_API_KEY, GEMINI_API_KEY>>

\* gerar_audio from the status check to its answer, the client closed.
AudioFinish(i) ==
    /\ reqs[i].ep = "gerar_audio"
    /\ reqs[i].pc = "resumed"
    /\ LET outcome == AudioExcept(AudioTry(LocalResponse(reqs, i)))
       IN  reqs' = [reqs EXCEPT ![i] =
                      [@ EXCEPT !.pc = AfterAttempt(outcome),
                                !.out = HttpLayer(outcome)]]
    /\ UNCHANGED <<GROQ_API_KEY, GEMINI_API_KEY>>

\* The field a request body can give.
Fields == {Absent, PyNone} \cup {PyStr(s) : s \in Strs}

\* One request at a time, every input and every upstream result.
Init ==
    /\ GROQ_API_KEY \in KeyValues
    /\ GEMINI_API_KEY \in KeyValues
    /\ reqs = [i \in {1} |-> Idle]

Next ==
    \/ \E i \in DOMAIN reqs, ep \in Endpoints, v \in Fields : Arrive(i, ep, v)
    \/ \E i \in DOMAIN reqs : HealthCheck(i)
    \/ \E i \in DOMAIN reqs : Begin(i)
    \/ \E i \in DOMAIN reqs, res \in ChainResults : HistoriaResume(i, res)
    \/ \E i \in DOMAIN reqs, up \in Replies : AudioReply(i, up)
    \/ \E i \in DOMAIN reqs : AudioFinish(i)

Spec == Init /\ [][Next]_vars

(***************************************************************************)
(* Several requests in flight together, each suspended at its own call and *)
(* resumed in any order.                                                   *)
(***************************************************************************)
\* The body of the spec's end-to-end scenario.
GoodBody ==
    Dict1("candidates", PyList(<<
      Dict1("content", Dict1("parts", PyList(<<
        Dict1("inlineData",
              Dict2("data", PyStr(<<"Q", "U", "J", "D">>),
                    "mimeType", PyStr(<<"audio/L16;rate=24000">>)))>>)))>>))

ConcFields == {Absent, PyStr(<<>>), PyStr(<<"a">>)}
ConcChainResults ==
    {PyStr(<<"a">>), PyStr(<<" ">>), Exc("APIConnectionError", <<"Connection error.">>)}
ConcReplies ==
    { Exc("ConnectError", <<"All connection attempts failed">>),
      HttpResponse(403, Unparsable),
      HttpResponse(200, GoodBody),
      HttpResponse(200, Dict1("candidates", PyList(<<>>))),
      HttpResponse(200, EmptyDict) }

InitConc ==
    /\ GROQ_API_KEY \in KeyValues
    /\ GEMINI_API_KEY \in KeyValues
    /\ reqs = [i \in 1..NumConcurrent |-> Idle]

NextConc ==
    \/ \E i \in DOMAIN reqs, ep \in Endpoints, v \in ConcFields : Arrive(i, ep, v)
    \/ \E i \in DOMAIN reqs : HealthCheck(i)
    \/ \E i \in DOMAIN reqs : Begin(i)
    \/ \E i \in DOMAIN reqs, res \in ConcChainResults : HistoriaResume(i, res)
    \/ \E i \in DOMAIN reqs, up \in ConcReplies : AudioReply(i, up)
    \/ \E i \in DOMAIN reqs : AudioFinish(i)

SpecConc == InitConc /\ [][NextConc]_vars

(***************************************************************************)
(* A handler run alone                                                     *)
(***************************************************************************)
\* gerar_historia from call to answer, with credentials env, chain.ainvoke
\* (if reached) giving res.
HistoriaRun(env, res) ==
    IF KeyMissing(HistoriaKey(env)) THEN HttpLayer(HistoriaConfigError)
    ELSE HttpLayer(HistoriaExcept(HistoriaTry(res)))

\* gerar_audio from call to answer, with credentials env, client.post
\* (if reached) giving up.
AudioRun(env, up) ==
    IF KeyMissing(AudioKey(env)) THEN HttpLayer(AudioConfigError)
    ELSE HttpLayer(AudioExcept(AudioTry(up)))

RunAlone(ep, env, up) ==
    IF ep = "gerar_historia" THEN HistoriaRun(env, up) ELSE AudioRun(env, up)

(***************************************************************************)
(* Properties                                                              *)
(***************************************************************************)
\* The handler of request i was called (its body validated) and answered.
Answered(i) ==
    /\ reqs[i].ep \in Endpoints
    /\ reqs[i].pc = "done"
    /\ reqs[i].input.t = "str"

Present(key) == key.t = "str" /\ Len(key.s) > 0

Range(seq) == {seq[k] : k \in DOMAIN seq}

\* C1: a gerar_audio request whose upstream answers 403 is answered 403 with
\* the credential-specific detail, never a generic 500.
C1_Upstream403Answered403 ==
    \A i \in DOMAIN reqs :
        ( /\ Answered(i)
          /\ reqs[i].ep = "gerar_audio"
          /\ Present(GEMINI_API_KEY)
          /\ reqs[i].up.t = "response"
          /\ reqs[i].up.status = 403 )
        => /\ reqs[i].out.status = 403
           /\ reqs[i].out.body = <<"A chave da API de Áudio é inválida.">>

\* C2: with its credential unset or empty, a handler answers 500 with the
\* configuration error and builds no client and makes no outbound call.
C2_NoCallWithoutCredential ==
    \A i \in DOMAIN reqs :
        LET key == IF reqs[i].ep = "gerar_historia"
                   THEN GROQ_API_KEY ELSE GEMINI_API_KEY
            msg == IF reqs[i].ep = "gerar_historia"
                   THEN <<"GROQ_API_KEY não configurada.">>
                   ELSE <<"Chave da API de Áudio não configurada.">>
        IN  ( /\ reqs[i].ep \in Endpoints
              /\ reqs[i].input.t = "str"
              /\ ~Present(key) )
            => /\ reqs[i].calls = 0
               /\ reqs[i].clients = 0
               /\ reqs[i].pc \in {"entered", "done"}
               /\ reqs[i].pc = "done" =>
                    reqs[i].out = [status |-> 500, kind |-> "error", body |-> msg]

C2_Witness ==
    \E i \in DOMAIN reqs :
        /\ Answered(i)
        /\ reqs[i].ep = "gerar_audio"
        /\ GEMINI_API_KEY = PyStr(<<>>)
        /\ Present(GROQ_API_KEY)
        /\ reqs[i].out.status = 500
        /\ reqs[i].calls = 0

\* C3: an answer does not depend on the credential its endpoint does not
\* use: the answer given equals the answer of the same handler, input and
\* upstream result under any value of the other credential; GET / is
\* answered 200 whatever the credentials.
C3_OtherCredentialIrrelevant ==
    \A i \in DOMAIN reqs :
        /\ ( Answered(i) /\ reqs[i].ep = "gerar_historia" ) =>
              \A other \in KeyValues :
                  reqs[i].out = HistoriaRun([Env EXCEPT !.gemini = other], reqs[i].up)
        /\ ( Answered(i) /\ reqs[i].ep = "gerar_audio" ) =>
              \A other \in KeyValues :
                  reqs[i].out = AudioRun([Env EXCEPT !.groq = other], reqs[i].up)
        /\ ( reqs[i].ep = "health" /\ reqs[i].pc = "done" ) =>
              reqs[i].out.status = 200

\* A story answered 200 while the speech credential is unset.
C3_Witness ==
    \E i \in DOMAIN reqs :
        /\ Answered(i)
        /\ reqs[i].ep = "gerar_historia"
        /\ GEMINI_API_KEY = PyNone
        /\ reqs[i].out.status = 200

\* C4: a gerar_historia request whose query is empty or only whitespace is
\* answered with a client error (4xx) and is not forwarded upstream (stated
\* here for the requests made with the chat credential present).
C4_BlankThemeRejected ==
    \A i \in DOMAIN reqs :
        ( /\ reqs[i].ep = "gerar_historia"
          /\ Present(GROQ_API_KEY)
          /\ reqs[i].input.t = "str"
          /\ \A k \in DOMAIN reqs[i].input.s : reqs[i].input.s[k] = " " )
        => /\ reqs[i].calls = 0
           /\ reqs[i].pc = "done" => reqs[i].out.status \in 400..499

\* C5: a gerar_audio request whose one outbound call fails at transport
\* level (connection refused, DNS, timeout) is answered 502 with the cause
\* stringified after the message, not 500 or 403.
C5_TransportFailureAnswered502 ==
    \A i \in DOMAIN reqs :
        ( /\ Answered(i)
          /\ reqs[i].ep = "gerar_audio"
          /\ Present(GEMINI_API_KEY)
          /\ reqs[i].up \in TransportErrors )
        => reqs[i].out =
              [status |-> 502, kind |-> "error",
               body |-> <<"Erro de comunicação com a API de Áudio: ">>
                          \o reqs[i].up.detail]

\* The 30-second timeout expired while reading.
C5_Witness ==
    \E i \in DOMAIN reqs :
        /\ Answered(i)
        /\ reqs[i].ep = "gerar_audio"
        /\ reqs[i].up = Exc("ReadTimeout", <<>>)
        /\ reqs[i].out.status = 502

\* The value of key in v, when v is an object that holds it.
Child(v, key) == IF v.t = "dict" /\ key \in DOMAIN v.f THEN v.f[key] ELSE Absent
\* The first element of v, when v is a non-empty list.
First(v) == IF v.t = "list" /\ Len(v.items) > 0 THEN v.items[1] ELSE Absent
\* The value at candidates[0].content.parts[0].inlineData.<field> of a body.
Found(body, field) ==
    Child(Child(First(Child(Child(First(Child(body, "candidates")), "content"),
                            "parts")),
                "inlineData"),
          field)
\* Present and non-empty.
NonEmpty(v) == v # Absent /\ Truthy(v)
IsText(v) == v.t = "str"
InlineShaped(v) ==
    /\ v.t = "dict"
    /\ Child(v, "data") = Absent \/ IsText(Child(v, "data"))
    /\ Child(v, "mimeType") = Absent \/ IsText(Child(v, "mimeType"))
PartShaped(v) ==
    /\ v.t = "dict"
    /\ Child(v, "inlineData") = Absent \/ InlineShaped(Child(v, "inlineData"))
PartsShaped(v) == v.t = "list" /\ (Len(v.items) = 0 \/ PartShaped(v.items[1]))
ContentShaped(v) ==
    /\ v.t = "dict"
    /\ Child(v, "parts") = Absent \/ PartsShaped(Child(v, "parts"))
CandidateShaped(v) ==
    /\ v.t = "dict"
    /\ Child(v, "content") = Absent \/ ContentShaped(Child(v, "content"))
CandidatesShaped(v) ==
    v.t = "list" /\ (Len(v.items) = 0 \/ CandidateShaped(v.items[1]))
\* A JSON object in which each key of the path is missing or holds a value of
\* its kind: candidates and parts lists (possibly empty), content and
\* inlineData objects, data and mimeType strings (possibly empty).
Shaped(body) ==
    /\ body.t = "dict"
    /\ Child(body, "candidates") = Absent \/ CandidatesShaped(Child(body, "candidates"))

\* C6: on an upstream success status the answer is 200 with audio_base64 and
\* mime_type equal to the values at the fixed path exactly when both are
\* present and non-empty; otherwise (a key of the path missing, candidates
\* or parts an empty list, data or mimeType missing or empty) it is 500 with
\* the malformed-response message.
C6_ExtractsOrMalformed ==
    \A i \in DOMAIN reqs :
        ( /\ Answered(i)
          /\ reqs[i].ep = "gerar_audio"
          /\ reqs[i].up.t = "response"
          /\ reqs[i].up.status \in 200..299
          /\ Shaped(reqs[i].up.body) )
        => LET data == Found(reqs[i].up.body, "data")
               mime == Found(reqs[i].up.body, "mimeType")
               out  == reqs[i].out
           IN  IF NonEmpty(data) /\ NonEmpty(mime)
               THEN /\ out.status = 200
                    /\ out.kind = "ok"
                    /\ PyStr(out.body.audio_base64) = data
                    /\ PyStr(out.body.mime_type) = mime
               ELSE /\ out.status = 500
                    /\ out.kind = "error"
                    /\ "API de TTS não retornou dados de áudio." \in Range(out.body)

\* C7: with the chat credential present and a non-empty theme, a story text
\* T from upstream is answered 200 with story_text exactly T.
C7_StoryVerbatim ==
    \A i \in DOMAIN reqs :
        ( /\ Answered(i)
          /\ reqs[i].ep = "gerar_historia"
          /\ Len(reqs[i].input.s) > 0
          /\ Present(GROQ_API_KEY)
          /\ reqs[i].up.t = "str" )
        => /\ reqs[i].out.status = 200
           /\ reqs[i].out.kind = "ok"
           /\ reqs[i].out.body = [t |-> "StoryOutput", story_text |-> reqs[i].up.s]

\* A story that starts with a space and is returned with it.
C7_Witness ==
    \E i \in DOMAIN reqs :
        /\ Answered(i)
        /\ reqs[i].ep = "gerar_historia"
        /\ reqs[i].input.s = <<"a">>
        /\ reqs[i].up = PyStr(<<" ", "a">>)
        /\ reqs[i].out.status = 200
        /\ reqs[i].out.body.story_text = <<" ", "a">>

\* C8: every answer of a handler is a full success response or a well-formed
\* HTTP error of the taxonomy (500 configuration, 403 credential rejected,
\* 502 transport, 500 malformed upstream response, 500 unexpected); no
\* exception escapes the handler and no response is partial.
C8_EveryOutcomeInTaxonomy ==
    \A i \in DOMAIN reqs :
        Answered(i) =>
            LET out == reqs[i].out
                ep  == reqs[i].ep
            IN  \/ /\ out.kind = "ok"
                   /\ out.status = 200
                   /\ IF ep = "gerar_historia"
                      THEN out.body.t = "StoryOutput" /\ out.body.story_text \in Seq(STRING)
                      ELSE /\ out.body.t = "AudioOutput"
                           /\ Len(out.body.audio_base64) > 0
                           /\ Len(out.body.mime_type) > 0
                \/ /\ out.kind = "error"
                   /\ \/ /\ out.status = 500
                         /\ out.body = IF ep = "gerar_historia"
                                       THEN <<"GROQ_API_KEY não configurada.">>
                                       ELSE <<"Chave da API de Áudio não configurada.">>
                      \/ /\ out.status = 403
                         /\ ep = "gerar_audio"
                         /\ out.body = <<"A chave da API de Áudio é inválida.">>
                      \/ /\ out.status = 502
                         /\ ep = "gerar_audio"
                         /\ out.body[1] = "Erro de comunicação com a API de Áudio: "
                      \/ /\ out.status = 500
                         /\ ep = "gerar_audio"
                         /\ out.body = <<"API de TTS não retornou dados de áudio.">>
                      \/ /\ out.status = 500
                         /\ out.body[1] = IF ep = "gerar_historia"
                                          THEN "Erro ao gerar história: "
                                          ELSE "Erro ao gerar áudio: "

\* An upstream body that is JSON null, answered as an unexpected failure.
C8_Witness ==
    \E i \in DOMAIN reqs :
        /\ Answered(i)
        /\ reqs[i].ep = "gerar_audio"
        /\ reqs[i].up = HttpResponse(200, PyNone)
        /\ reqs[i].out.kind = "error"
        /\ reqs[i].out.status = 500

\* C9: a request makes at most one outbound call over its lifetime: once
\* the call has returned or failed, the handler answers and calls no more.
C9_SingleAttempt ==
    /\ [](\A i \in DOMAIN reqs : reqs[i].calls <= 1)
    /\ [][\A i \in DOMAIN reqs :
            reqs[i].pc \in {"resumed", "done"} =>
                /\ reqs'[i].calls = reqs[i].calls
                /\ reqs'[i].pc \in {"resumed", "done"}]_vars

\* A transport failure answered after one call.
C9_Witness ==
    \E i \in DOMAIN reqs :
        /\ Answered(i)
        /\ reqs[i].up \in TransportErrors
        /\ reqs[i].out.status = 502
        /\ reqs[i].calls = 1

\* C10: with requests in flight together and resumed in any order, every
\* answer is the one its handler gives run alone on the same input,
\* credentials and upstream result, and no step writes the credentials.
C10_Isolation ==
    /\ [](\A i \in DOMAIN reqs :
            Answered(i) => reqs[i].out = RunAlone(reqs[i].ep, Env, reqs[i].up))
    /\ [][GROQ_API_KEY' = GROQ_API_KEY /\ GEMINI_API_KEY' = GEMINI_API_KEY]_vars

\* Two speech requests answered differently, the second while the first was
\* suspended with another result.
C10_Witness ==
    \E i, j \in DOMAIN reqs :
        /\ i # j
        /\ reqs[i].ep = "gerar_audio" /\ reqs[i].pc = "resumed"
        /\ reqs[i].up = HttpResponse(403, Unparsable)
        /\ Answered(j) /\ reqs[j].ep = "gerar_audio"
        /\ reqs[j].up = HttpResponse(200, GoodBody)
        /\ reqs[j].out.status = 200

====
